---- MODULE Spec2Model ----
(***************************************************************************)
(* Model of src/src/subgraph.py: the Subgraph class.  The class is a       *)
(* library of pure functions over adjacency matrices; a state of the model *)
(* is the pair of matrices (or of integer sequences) a caller holds, the   *)
(* instance field, the result of the last call made on them, and what the  *)
(* compare methods have returned for the pair so far.                      *)
(*                                                                         *)
(* A matrix is a sequence of rows, each a sequence of entries; the Python  *)
(* entry matrix[i, j] (0-based) is matrix[i + 1][j + 1] here.              *)
(***************************************************************************)
EXTENDS Integers, Sequences, FiniteSets, TLC

VARIABLES
    A,                   \* first matrix argument (graph G)
    B,                   \* second matrix argument (graph G')
    seq_A,               \* first sequence argument of the sequence functions
    seq_B,               \* second sequence argument of the sequence functions
    use_adjacency_list,  \* instance field set by __init__
    op,                  \* name of the last method called ("init": none yet)
    sigs,                \* returned by _compute_column_signature
    adj,                 \* returned by adjacency_matrix_to_list
    match,               \* returned by the two sequence functions
    decision,            \* first component of a compare result
    kept,                \* second component: "A", "B" or "None"
    raised,              \* exception that ended the call, "none" if it returned
    trace,               \* run-match calls made in each rotation of the last search
    returned             \* what each compare method has returned for this pair so far

vars == <<A, B, seq_A, seq_B, use_adjacency_list, op, sigs, adj, match,
          decision, kept, raised, trace, returned>>

----
(* Bounds of the model. *)

\* largest number of nodes of a graph
MaxN == 3
\* largest total number of edges of the two graphs of a pair (Spec)
MaxEdges == 3
\* largest number of nonzero entries of a matrix with arbitrary entries
\* (SpecEnc); at most MaxEdges
MaxEncEdges == 2
\* largest matrix entry (entries other than 0 and 1 occur in SpecEnc only)
MaxVal == 2
\* longest sequence handed to the sequence functions in SpecSeq
MaxLen == 3
\* largest element of those sequences
MaxSig == 2

----
(* Input domains. *)

Cells(n) == (1..n) \X (1..n)

\* EdgeSets[n][e]: the sets of at most e cells of an n x n matrix
EdgeSets ==
    [n \in 0..MaxN |-> [e \in 0..MaxEdges |->
        { T \in SUBSET Cells(n) : Cardinality(T) <= e }]]

\* the n x n matrix whose nonzero entries are those of the function f
MkMatrix(n, f) ==
    [i \in 1..n |-> [j \in 1..n |->
        IF <<i, j>> \in DOMAIN f THEN f[<<i, j>>] ELSE 0]]

\* SparseMatrices[e]: the 0/1 matrices of at most MaxN nodes and e edges
SparseMatrices ==
    [e \in 0..MaxEdges |->
        UNION { { MkMatrix(n, [c \in S |-> 1]) : S \in EdgeSets[n][e] } : n \in 0..MaxN }]

\* every 0/1 matrix of at most MaxN nodes
DenseMatrices == UNION { [1..n -> [1..n -> {0, 1}]] : n \in 0..MaxN }

RECURSIVE SeqsOf(_, _)
SeqsOf(S, n) ==
    IF n = 0 THEN { <<>> }
    ELSE LET shorter == SeqsOf(S, n - 1)
         IN  shorter \cup { Append(s, x) : s \in { t \in shorter : Len(t) = n - 1 }, x \in S }

\* sequences of at most MaxLen integers in 0..MaxSig
Sequences == SeqsOf(0..MaxSig, MaxLen)

RECURSIVE SeqSum(_)
SeqSum(s) == IF s = <<>> THEN 0 ELSE Head(s) + SeqSum(Tail(s))

----
(* The methods of Subgraph, as operators. *)

\* row i weighted 2**(i+1) instead of 2**i
RECURSIVE row_signature_shifted(_, _, _)
row_signature_shifted(matrix, col, k) ==
    IF k = 0 THEN 0
    ELSE row_signature_shifted(matrix, col, k - 1)
         + (IF matrix[k][col + 1] = 1 THEN 2 ^ k ELSE 0)

\* sum(2**i for i in range(k) if column_vector[i] == 1), column_vector = matrix[:, col]
RECURSIVE row_signature(_, _, _)
row_signature(matrix, col, k) ==
    IF k = 0 THEN 0
    ELSE row_signature(matrix, col, k - 1)
         + (IF matrix[k][col + 1] = 1 THEN 2 ^ (k - 1) ELSE 0)

\* the column index weighted 2**(n-1) instead of 2**n
col_weight_low(col, n) == col * (2 ^ (n - 1))

col_weight(col, n) == col * (2 ^ n)

\* the list signatures after the first k passes of the loop over col
RECURSIVE signatures_after(_, _)
signatures_after(matrix, k) ==
    IF k = 0 THEN <<>>
    ELSE LET n == Len(matrix)
             col == k - 1
             signature == row_signature(matrix, col, n) + col_weight(col, n)
         IN  Append(signatures_after(matrix, k - 1), signature)

compute_column_signature(matrix) == signatures_after(matrix, Len(matrix))

\* the running maximum of the values in S, starting from 0
SetMax(S) ==
    IF S = {} THEN 0 ELSE CHOOSE x \in S : \A y \in S : y <= x

\* dp[i][j] carried over from dp[i-1][j-1], not reset, where the elements differ
RECURSIVE dp_carried(_, _, _, _)
dp_carried(s, t, i, j) ==
    IF i = 0 \/ j = 0 THEN 0
    ELSE IF s[i] = t[j] THEN dp_carried(s, t, i - 1, j - 1) + 1
         ELSE dp_carried(s, t, i - 1, j - 1)

\* the table dp of _compare_signature_sequences after its loops
RECURSIVE dp(_, _, _, _)
dp(s, t, i, j) ==
    IF i = 0 \/ j = 0 THEN 0
    ELSE IF s[i] = t[j] THEN dp(s, t, i - 1, j - 1) + 1 ELSE 0

dp_table(s, t) == [i \in 0..Len(s), j \in 0..Len(t) |-> dp(s, t, i, j)]

\* a common run of length 1 accepted
compare_signature_sequences_ge1(s, t) ==
    LET n == Len(s)
        m == Len(t)
        max_length == SetMax({ dp(s, t, i, j) : i \in 1..n, j \in 1..m })
    IN  max_length >= 1

compare_signature_sequences(s, t) ==
    LET n == Len(s)
        m == Len(t)
        max_length == SetMax({ dp(s, t, i, j) : i \in 1..n, j \in 1..m })
    IN  max_length >= 2

\* the signatures compared with their position bands left in
row_sigs_banded(sig_X, weight) == sig_X

\* [sig % weight for sig in sig_X]
RECURSIVE row_sigs(_, _)
row_sigs(sig_X, weight) ==
    IF sig_X = <<>> THEN <<>>
    ELSE <<Head(sig_X) % weight>> \o row_sigs(Tail(sig_X), weight)

\* no rotation made
rotated_none(seq, rotation) == seq

\* row_sigs_B[rotation:] + row_sigs_B[:rotation]
rotated(seq, rotation) ==
    SubSeq(seq, rotation + 1, Len(seq)) \o SubSeq(seq, 1, rotation)

\* without the early return for an empty sig_A
find_signature_rotation_match_noempty(sig_A, sig_B) ==
    LET n_A == Len(sig_A)
        n_B == Len(sig_B)
        col_weight_A == 2 ^ n_A
        col_weight_B == 2 ^ n_B
        row_sigs_A == row_sigs(sig_A, col_weight_A)
        row_sigs_B == row_sigs(sig_B, col_weight_B)
    IN  IF n_A > n_B THEN FALSE
        ELSE \E rotation \in 0..(n_B - 1) :
                LET rotated_B == rotated(row_sigs_B, rotation)
                IN  IF n_A = n_B
                    THEN compare_signature_sequences(row_sigs_A, rotated_B)
                    ELSE \E start \in 0..(n_B - n_A) :
                            compare_signature_sequences(
                                row_sigs_A, SubSeq(rotated_B, start + 1, start + n_A))

find_signature_rotation_match(sig_A, sig_B) ==
    LET n_A == Len(sig_A)
        n_B == Len(sig_B)
        col_weight_A == 2 ^ n_A
        col_weight_B == 2 ^ n_B
        row_sigs_A == row_sigs(sig_A, col_weight_A)
        row_sigs_B == row_sigs(sig_B, col_weight_B)
    IN  IF n_A > n_B THEN FALSE
        ELSE IF n_A = 0 THEN TRUE
        ELSE \E rotation \in 0..(n_B - 1) :
                LET rotated_B == rotated(row_sigs_B, rotation)
                IN  IF n_A = n_B
                    THEN compare_signature_sequences(row_sigs_A, rotated_B)
                    ELSE \E start \in 0..(n_B - n_A) :
                            compare_signature_sequences(
                                row_sigs_A, SubSeq(rotated_B, start + 1, start + n_A))

\* The same search step by step, counting the calls of
\* _compare_signature_sequences: the body of the rotation loop accepts when
\* one of its calls does, and returns from the search at once.
rotation_accepts(row_sigs_A, rotated_B) ==
    LET n_A == Len(row_sigs_A)
        n_B == Len(rotated_B)
    IN  IF n_A = n_B
        THEN compare_signature_sequences(row_sigs_A, rotated_B)
        ELSE \E start \in 0..(n_B - n_A) :
                compare_signature_sequences(
                    row_sigs_A, SubSeq(rotated_B, start + 1, start + n_A))

\* calls made by the window loop from `start` on; it ends at the first window
\* accepted or when range(n_B - n_A + 1) is exhausted
RECURSIVE window_checks(_, _, _)
window_checks(row_sigs_A, rotated_B, start) ==
    LET n_A == Len(row_sigs_A)
        n_B == Len(rotated_B)
    IN  IF start >= n_B - n_A + 1 THEN 0
        ELSE IF compare_signature_sequences(
                    row_sigs_A, SubSeq(rotated_B, start + 1, start + n_A))
             THEN 1
             ELSE 1 + window_checks(row_sigs_A, rotated_B, start + 1)

\* calls made by one pass of the rotation loop
rotation_checks(row_sigs_A, rotated_B) ==
    IF Len(row_sigs_A) = Len(rotated_B) THEN 1
    ELSE window_checks(row_sigs_A, rotated_B, 0)

\* one rotation more than range(n_B)
RECURSIVE rotation_loop_extra(_, _, _)
rotation_loop_extra(row_sigs_A, row_sigs_B, rotation) ==
    IF rotation >= Len(row_sigs_B) + 1 THEN <<>>
    ELSE LET rotated_B == rotated(row_sigs_B, rotation)
             checks == rotation_checks(row_sigs_A, rotated_B)
         IN  IF rotation_accepts(row_sigs_A, rotated_B) THEN <<checks>>
             ELSE <<checks>> \o rotation_loop_extra(row_sigs_A, row_sigs_B, rotation + 1)

\* the rotation loop from `rotation` on: the number of calls of each pass made
RECURSIVE rotation_loop(_, _, _)
rotation_loop(row_sigs_A, row_sigs_B, rotation) ==
    IF rotation >= Len(row_sigs_B) THEN <<>>
    ELSE LET rotated_B == rotated(row_sigs_B, rotation)
             checks == rotation_checks(row_sigs_A, rotated_B)
         IN  IF rotation_accepts(row_sigs_A, rotated_B) THEN <<checks>>
             ELSE <<checks>> \o rotation_loop(row_sigs_A, row_sigs_B, rotation + 1)

\* the passes of the rotation loop a call makes, none after an early return
rotation_trace(sig_A, sig_B) ==
    LET n_A == Len(sig_A)
        n_B == Len(sig_B)
    IN  IF n_A > n_B \/ n_A = 0 THEN <<>>
        ELSE rotation_loop(row_sigs(sig_A, 2 ^ n_A), row_sigs(sig_B, 2 ^ n_B), 0)

\* np.sum(matrix == 1)
ones(matrix) ==
    SeqSum([i \in 1..Len(matrix) |->
        Cardinality({ j \in 1..Len(matrix) : matrix[i][j] = 1 })])

\* the two one-sided decisions taken for each other
compare_graphs_crossed(MA, MB) ==
    LET sig_A == compute_column_signature(MA)
        sig_B == compute_column_signature(MB)
        A_in_B == find_signature_rotation_match(sig_A, sig_B)
        B_in_A == find_signature_rotation_match(sig_B, sig_A)
    IN  IF A_in_B /\ B_in_A
        THEN IF ones(MB) > ones(MA)
             THEN <<"equal_keep_B", "B">>
             ELSE <<"equal_keep_A", "A">>
        ELSE IF A_in_B THEN <<"keep_A", "A">>
        ELSE IF B_in_A THEN <<"keep_B", "B">>
        ELSE <<"keep_both", "None">>

\* the tie-break taken with >= instead of >
compare_graphs_ge(MA, MB) ==
    LET sig_A == compute_column_signature(MA)
        sig_B == compute_column_signature(MB)
        A_in_B == find_signature_rotation_match(sig_A, sig_B)
        B_in_A == find_signature_rotation_match(sig_B, sig_A)
    IN  IF A_in_B /\ B_in_A
        THEN IF ones(MB) >= ones(MA)
             THEN <<"equal_keep_B", "B">>
             ELSE <<"equal_keep_A", "A">>
        ELSE IF A_in_B THEN <<"keep_B", "B">>
        ELSE IF B_in_A THEN <<"keep_A", "A">>
        ELSE <<"keep_both", "None">>

compare_graphs(MA, MB) ==
    LET sig_A == compute_column_signature(MA)
        sig_B == compute_column_signature(MB)
        A_in_B == find_signature_rotation_match(sig_A, sig_B)
        B_in_A == find_signature_rotation_match(sig_B, sig_A)
    IN  IF A_in_B /\ B_in_A
        THEN IF ones(MB) > ones(MA)
             THEN <<"equal_keep_B", "B">>
             ELSE <<"equal_keep_A", "A">>
        ELSE IF A_in_B THEN <<"keep_B", "B">>
        ELSE IF B_in_A THEN <<"keep_A", "A">>
        ELSE <<"keep_both", "None">>

\* the inner loop started at j = i + 1, losing self-loops and back edges
adjacency_matrix_to_list_upper(matrix) ==
    LET n == Len(matrix)
    IN  [i \in 1..n |-> { j \in i..(n - 1) : matrix[i][j + 1] = 1 }]

adjacency_matrix_to_list(matrix) ==
    LET n == Len(matrix)
    IN  [i \in 1..n |-> { j \in 0..(n - 1) : matrix[i][j + 1] = 1 }]

\* all(x[i].issubset(y[i]) for i in range(len(x))), evaluated from index k on:
\* "True", "False", or "IndexError" when y[i] is read past its end before a
\* False has been found
RECURSIVE all_subset(_, _, _)
all_subset(x, y, k) ==
    IF k >= Len(x) THEN "True"
    ELSE IF k >= Len(y) THEN "IndexError"
    ELSE IF ~(x[k + 1] \subseteq y[k + 1]) THEN "False"
    ELSE all_subset(x, y, k + 1)

\* <<decision, kept, raised>>
compare_graphs_with_adj_list(MA, MB) ==
    LET adj_A == adjacency_matrix_to_list(MA)
        adj_B == adjacency_matrix_to_list(MB)
        A_in_B == all_subset(adj_A, adj_B, 0)
        B_in_A == all_subset(adj_B, adj_A, 0)
    IN  IF A_in_B = "IndexError" \/ B_in_A = "IndexError"
        THEN <<"no_result", "no_result", "IndexError">>
        ELSE IF A_in_B = "True" /\ B_in_A = "True" THEN <<"equal", "A", "none">>
        ELSE IF A_in_B = "True" THEN <<"keep_B", "B", "none">>
        ELSE IF B_in_A = "True" THEN <<"keep_A", "A", "none">>
        ELSE <<"keep_both", "None", "none">>

----
(* The state machine: Init chooses the arguments the caller holds and the  *)
(* instance; each action is one call of a method on them, and records what *)
(* the call returned or raised.                                            *)

NoResult ==
    /\ sigs = <<>>
    /\ adj = <<>>
    /\ match = FALSE
    /\ decision = "no_result"
    /\ kept = "no_result"
    /\ raised = "none"
    /\ trace = <<>>

\* the public compare methods
CompareMethods == {"compare_graphs", "compare_graphs_with_adj_list"}

\* no compare method has been called on the pair yet
NoneReturned == [m \in CompareMethods |-> {}]

\* the caller's record of the results: the method, the field of the instance
\* it was called on, and what it returned
Record(method, result) ==
    [returned EXCEPT ![method] = @ \cup { <<use_adjacency_list>> \o result }]

\* the 0/1 image of a matrix: every nonzero entry replaced by 1
Normalise(matrix) ==
    [i \in 1..Len(matrix) |-> [j \in 1..Len(matrix) |->
        IF matrix[i][j] # 0 THEN 1 ELSE 0]]

\* pairs of 0/1 matrices of at most MaxEdges edges in all (A of exactly e
\* edges, B of at most MaxEdges - e), on a default instance Subgraph()
Init ==
    /\ \E e \in 0..MaxEdges :
        /\ A \in SparseMatrices[e] \ (IF e = 0 THEN {} ELSE SparseMatrices[e - 1])
        /\ B \in SparseMatrices[MaxEdges - e]
    /\ seq_A = <<>>
    /\ seq_B = <<>>
    /\ use_adjacency_list = FALSE
    /\ op = "init"
    /\ NoResult
    /\ returned = NoneReturned

\* a matrix with arbitrary entries beside its 0/1 image, on either instance
InitEnc ==
    /\ \E n \in 0..MaxN : \E S \in EdgeSets[n][MaxEncEdges] : \E f \in [S -> 1..MaxVal] :
        A = MkMatrix(n, f)
    /\ B = Normalise(A)
    /\ seq_A = <<>>
    /\ seq_B = <<>>
    /\ use_adjacency_list \in BOOLEAN
    /\ op = "init"
    /\ NoResult
    /\ returned = NoneReturned

\* any 0/1 matrix, beside a copy of itself
InitSelf ==
    /\ A \in DenseMatrices
    /\ B = A
    /\ seq_A = <<>>
    /\ seq_B = <<>>
    /\ use_adjacency_list = FALSE
    /\ op = "init"
    /\ NoResult
    /\ returned = NoneReturned

\* two integer sequences
InitSeq ==
    /\ A = <<>>
    /\ B = <<>>
    /\ seq_A \in Sequences
    /\ seq_B \in Sequences
    /\ use_adjacency_list = FALSE
    /\ op = "init"
    /\ NoResult
    /\ returned = NoneReturned

\* pairs of 0/1 matrices of fewer than MaxEncEdges edges in all, on either
\* instance Subgraph(False), Subgraph(True)
InitInst ==
    /\ \E e \in 0..(MaxEncEdges - 1) :
        /\ A \in SparseMatrices[e] \ (IF e = 0 THEN {} ELSE SparseMatrices[e - 1])
        /\ B \in SparseMatrices[MaxEncEdges - 1 - e]
    /\ seq_A = <<>>
    /\ seq_B = <<>>
    /\ use_adjacency_list \in BOOLEAN
    /\ op = "init"
    /\ NoResult
    /\ returned = NoneReturned

\* the column signatures of a pair of 0/1 matrices of at most MaxEdges edges
\* in all
InitSig ==
    /\ \E e \in 0..MaxEdges :
        /\ A \in SparseMatrices[e] \ (IF e = 0 THEN {} ELSE SparseMatrices[e - 1])
        /\ B \in SparseMatrices[MaxEdges - e]
    /\ seq_A = compute_column_signature(A)
    /\ seq_B = compute_column_signature(B)
    /\ use_adjacency_list = FALSE
    /\ op = "init"
    /\ NoResult
    /\ returned = NoneReturned

Args == UNCHANGED <<A, B, seq_A, seq_B, use_adjacency_list>>

\* Subgraph(flag): the caller goes on with a new instance
SubgraphInit ==
    /\ op # "init"
    /\ \E flag \in BOOLEAN : use_adjacency_list' = flag
    /\ op' = "init"
    /\ sigs' = <<>>
    /\ adj' = <<>>
    /\ match' = FALSE
    /\ decision' = "no_result"
    /\ kept' = "no_result"
    /\ raised' = "none"
    /\ trace' = <<>>
    /\ UNCHANGED <<A, B, seq_A, seq_B, returned>>

ComputeColumnSignature ==
    /\ op = "init"
    /\ op' = "compute_column_signature"
    /\ sigs' = compute_column_signature(A)
    /\ adj' = <<>>
    /\ match' = FALSE
    /\ decision' = "no_result"
    /\ kept' = "no_result"
    /\ raised' = "none"
    /\ trace' = <<>>
    /\ UNCHANGED returned
    /\ Args

AdjacencyMatrixToList ==
    /\ op = "init"
    /\ op' = "adjacency_matrix_to_list"
    /\ sigs' = <<>>
    /\ adj' = adjacency_matrix_to_list(A)
    /\ match' = FALSE
    /\ decision' = "no_result"
    /\ kept' = "no_result"
    /\ raised' = "none"
    /\ trace' = <<>>
    /\ UNCHANGED returned
    /\ Args

\* the caller drops the result of the last call and goes on with the same
\* instance
Discard ==
    /\ op # "init"
    /\ op' = "init"
    /\ sigs' = <<>>
    /\ adj' = <<>>
    /\ match' = FALSE
    /\ decision' = "no_result"
    /\ kept' = "no_result"
    /\ raised' = "none"
    /\ trace' = <<>>
    /\ UNCHANGED returned
    /\ Args

\* the method chosen by the field of the instance
CompareGraphsByField ==
    /\ op = "init"
    /\ LET r == IF use_adjacency_list
                THEN compare_graphs_with_adj_list(A, B)
                ELSE compare_graphs(A, B) \o <<"none">>
       IN  /\ op' = "compare_graphs"
           /\ sigs' = <<>>
           /\ adj' = <<>>
           /\ match' = FALSE
           /\ decision' = r[1]
           /\ kept' = r[2]
           /\ raised' = r[3]
           /\ trace' = <<>>
           /\ returned' = Record("compare_graphs", r)
           /\ Args

CompareGraphs ==
    /\ op = "init"
    /\ LET r == compare_graphs(A, B)
       IN  /\ op' = "compare_graphs"
           /\ sigs' = <<>>
           /\ adj' = <<>>
           /\ match' = FALSE
           /\ decision' = r[1]
           /\ kept' = r[2]
           /\ raised' = "none"
           /\ trace' = <<>>
           /\ returned' = Record("compare_graphs", <<r[1], r[2], "none">>)
           /\ Args

CompareGraphsWithAdjList ==
    /\ op = "init"
    /\ LET r == compare_graphs_with_adj_list(A, B)
       IN  /\ op' = "compare_graphs_with_adj_list"
           /\ sigs' = <<>>
           /\ adj' = <<>>
           /\ match' = FALSE
           /\ decision' = r[1]
           /\ kept' = r[2]
           /\ raised' = r[3]
           /\ trace' = <<>>
           /\ returned' = Record("compare_graphs_with_adj_list", r)
           /\ Args

CompareSignatureSequences ==
    /\ op = "init"
    /\ op' = "compare_signature_sequences"
    /\ sigs' = <<>>
    /\ adj' = <<>>
    /\ match' = compare_signature_sequences(seq_A, seq_B)
    /\ decision' = "no_result"
    /\ kept' = "no_result"
    /\ raised' = "none"
    /\ trace' = <<>>
    /\ UNCHANGED returned
    /\ Args

FindSignatureRotationMatch ==
    /\ op = "init"
    /\ op' = "find_signature_rotation_match"
    /\ sigs' = <<>>
    /\ adj' = <<>>
    /\ match' = find_signature_rotation_match(seq_A, seq_B)
    /\ decision' = "no_result"
    /\ kept' = "no_result"
    /\ raised' = "none"
    /\ trace' = rotation_trace(seq_A, seq_B)
    /\ UNCHANGED returned
    /\ Args

\* the methods that take one matrix or two
Next ==
    \/ ComputeColumnSignature
    \/ AdjacencyMatrixToList
    \/ CompareGraphs
    \/ CompareGraphsWithAdjList

\* the methods that take two matrices
NextPair ==
    \/ CompareGraphs
    \/ CompareGraphsWithAdjList

\* the methods that take two sequences
NextSeq ==
    \/ CompareSignatureSequences
    \/ FindSignatureRotationMatch

\* the methods that take two matrices, called again and again, in any order,
\* on one instance after another
NextInst ==
    \/ SubgraphInit
    \/ Discard
    \/ CompareGraphs
    \/ CompareGraphsWithAdjList

Spec == Init /\ [][NextPair]_vars

SpecInst == InitInst /\ [][NextInst]_vars

SpecSig == InitSig /\ [][FindSignatureRotationMatch]_vars

SpecEnc == InitEnc /\ [][Next]_vars

SpecSelf == InitSelf /\ [][Next]_vars

SpecSeq == InitSeq /\ [][NextSeq]_vars

----
(* Notions the properties are stated in. *)

Column(matrix, c) == [i \in 1..Len(matrix) |-> matrix[i][c]]

\* the edges (i, j), 0-based, of a matrix
EdgeSet(matrix) ==
    { e \in (0..(Len(matrix) - 1)) \X (0..(Len(matrix) - 1)) :
        matrix[e[1] + 1][e[2] + 1] # 0 }

OutNeighbours(matrix, i) == { j \in 0..(Len(matrix) - 1) : <<i, j>> \in EdgeSet(matrix) }

Bit(x, i) == (x \div (2 ^ i)) % 2

RECURSIVE SetSum(_)
SetSum(S) ==
    IF S = {} THEN 0
    ELSE LET x == CHOOSE y \in S : TRUE IN x + SetSum(S \ {x})

\* the sum of 2^i over the rows i of column c (0-based) that hold an edge
RowPart(matrix, c) ==
    SetSum({ 2 ^ i : i \in { r \in 0..(Len(matrix) - 1) : matrix[r + 1][c + 1] # 0 } })

IsZeroOne(matrix) ==
    \A i \in 1..Len(matrix) : \A j \in 1..Len(matrix) : matrix[i][j] \in {0, 1}

\* two columns of A with the same bit pattern, which holds an edge
HasTwinColumns ==
    \E c1, c2 \in 1..Len(A) :
        /\ c1 < c2
        /\ Column(A, c1) = Column(A, c2)
        /\ \E i \in 1..Len(A) : A[i][c1] = 1

----
(* C1..C3: the signature encoder. *)

\* C1: for every n x n matrix, _compute_column_signature returns exactly n
\* integers, and they are pairwise distinct, also when several columns have
\* the same bit pattern.
C1_SignaturesDistinct ==
    op = "compute_column_signature" =>
        /\ Len(sigs) = Len(A)
        /\ \A c \in 1..Len(sigs) : sigs[c] \in Int
        /\ \A c1, c2 \in 1..Len(sigs) : c1 # c2 => sigs[c1] # sigs[c2]

C1_Witness ==
    /\ op = "compute_column_signature"
    /\ Len(sigs) >= 2
    /\ HasTwinColumns

\* C2: for a 0/1 matrix the signature of column c is rowPart + c * 2^n with
\* rowPart the sum of 2^i over the rows holding an edge, 0 <= rowPart <= 2^n - 1;
\* so signature mod 2^n = rowPart (bit i of it is the entry of row i),
\* signature div 2^n = c, and columns c1 < c2 of the same bit pattern differ by
\* exactly (c2 - c1) * 2^n.
C2_SignatureFormula ==
    (op = "compute_column_signature" /\ IsZeroOne(A)) =>
        LET n == Len(A)
        IN  /\ \A c \in 0..(n - 1) :
                LET s == sigs[c + 1]
                    rowPart == RowPart(A, c)
                IN  /\ s = rowPart + c * (2 ^ n)
                    /\ 0 <= rowPart /\ rowPart <= (2 ^ n) - 1
                    /\ s % (2 ^ n) = rowPart
                    /\ s \div (2 ^ n) = c
                    /\ \A i \in 0..(n - 1) : Bit(s, i) = A[i + 1][c + 1]
            /\ \A c1, c2 \in 0..(n - 1) :
                (c1 < c2 /\ Column(A, c1 + 1) = Column(A, c2 + 1)) =>
                    sigs[c2 + 1] - sigs[c1 + 1] = (c2 - c1) * (2 ^ n)

C2_Witness ==
    /\ op = "compute_column_signature"
    /\ IsZeroOne(A)
    /\ Len(A) >= 3
    /\ HasTwinColumns
    /\ \E c \in 1..Len(A) : \A i \in 1..Len(A) : A[i][c] = 1

\* C3: any nonzero entry is an edge: replacing every nonzero entry by 1
\* changes neither the column signatures, nor the adjacency list, nor the
\* result of compare_graphs or of compare_graphs_with_adj_list.
C3_NonzeroIsEdge ==
    /\ op = "compute_column_signature" =>
        sigs = compute_column_signature(Normalise(A))
    /\ op = "adjacency_matrix_to_list" =>
        adj = adjacency_matrix_to_list(Normalise(A))
    /\ op = "compare_graphs" =>
        <<decision, kept>> = compare_graphs(Normalise(A), Normalise(B))
    /\ op = "compare_graphs_with_adj_list" =>
        <<decision, kept, raised>> =
            compare_graphs_with_adj_list(Normalise(A), Normalise(B))

----
(* C4..C6: the containment decision. *)

\* C4: reflexivity: for every square 0/1 matrix A of any size n >= 0, n = 1
\* included, compare_graphs(A, A) yields equal_keep_A and retains A.
C4_Reflexive ==
    (op = "compare_graphs" /\ B = A) =>
        (decision = "equal_keep_A" /\ kept = "A")

\* C5: compare_graphs follows the decision table on A_in_B = rotation match of
\* (sigA, sigB), B_in_A = rotation match of (sigB, sigA) and the edge counts;
\* the retained matrix is None iff the tag is keep_both.
C5_DecisionTable ==
    op = "compare_graphs" =>
        LET A_in_B == find_signature_rotation_match(
                          compute_column_signature(A), compute_column_signature(B))
            B_in_A == find_signature_rotation_match(
                          compute_column_signature(B), compute_column_signature(A))
            edgesA == Cardinality(EdgeSet(A))
            edgesB == Cardinality(EdgeSet(B))
        IN  /\ (A_in_B /\ B_in_A /\ edgesB > edgesA) =>
                (decision = "equal_keep_B" /\ kept = "B")
            /\ (A_in_B /\ B_in_A /\ edgesB <= edgesA) =>
                (decision = "equal_keep_A" /\ kept = "A")
            /\ (A_in_B /\ ~B_in_A) => (decision = "keep_B" /\ kept = "B")
            /\ (~A_in_B /\ B_in_A) => (decision = "keep_A" /\ kept = "A")
            /\ (~A_in_B /\ ~B_in_A) => (decision = "keep_both" /\ kept = "None")
            /\ (kept = "None") <=> (decision = "keep_both")
            /\ raised = "none"

C5_Witness ==
    /\ op = "compare_graphs"
    /\ decision = "equal_keep_B"
    /\ kept = "B"
    /\ Cardinality(EdgeSet(A)) >= 1

\* C6: if B contains A, B is kept: for equal-size 0/1 matrices with every edge
\* of A an edge of B and B holding an edge A lacks, compare_graphs(A, B)
\* retains B, with tag equal_keep_B; and with the arguments swapped the
\* container, now the first argument, is retained.
C6_ContainerKept ==
    (op = "compare_graphs" /\ Len(A) = Len(B)) =>
        /\ (EdgeSet(A) \subseteq EdgeSet(B) /\ EdgeSet(A) # EdgeSet(B)) =>
            (kept = "B" /\ decision = "equal_keep_B")
        /\ (EdgeSet(B) \subseteq EdgeSet(A) /\ EdgeSet(A) # EdgeSet(B)) =>
            kept = "A"

----
(* C7, C8: the sequence functions. *)

\* the indices at which the two sequences hold the same value
AgreeAt ==
    { k \in 1..Len(seq_A) : k <= Len(seq_B) /\ seq_A[k] = seq_B[k] }

TwoConsecutive == \E k \in AgreeAt : k + 1 \in AgreeAt

\* two adjacent elements of seq_A equal to two adjacent elements of seq_B
\* found at another offset
ShiftedRun ==
    \E i \in 1..(Len(seq_A) - 1) : \E j \in 1..(Len(seq_B) - 1) :
        i # j /\ seq_A[i] = seq_B[j] /\ seq_A[i + 1] = seq_B[j + 1]

\* C7 as stated: two sequences that agree at only one position at the same
\* index never match; two that agree at two consecutive positions always do.
C7_RunMatchThreshold ==
    op = "compare_signature_sequences" =>
        /\ Cardinality(AgreeAt) = 1 => ~match
        /\ TwoConsecutive => match

\* C7 as amended: two sequences that agree at only one position at the same
\* index, and share no two adjacent elements at different offsets, never
\* match; two that agree at two consecutive positions always do.
C7_RunMatchThresholdAmended ==
    op = "compare_signature_sequences" =>
        /\ (Cardinality(AgreeAt) = 1 /\ ~ShiftedRun) => ~match
        /\ TwoConsecutive => match

C7_Witness ==
    /\ op = "compare_signature_sequences"
    /\ Cardinality(AgreeAt) = 1
    /\ ~ShiftedRun
    /\ Len(seq_A) >= 3
    /\ Len(seq_B) >= 3

\* C8: _find_signature_rotation_match(sigA, sigB) returns false whenever
\* len(sigA) > len(sigB) and true whenever len(sigA) = 0, for every sigB,
\* the empty one included, whatever the values are.
C8_ShortCircuits ==
    op = "find_signature_rotation_match" =>
        /\ Len(seq_A) > Len(seq_B) => ~match
        /\ Len(seq_A) = 0 => match

C8_Witness ==
    /\ op = "find_signature_rotation_match"
    /\ Len(seq_A) = 0
    /\ Len(seq_B) = 0
    /\ match

----
(* C9, C10: the adjacency-list comparison. *)

\* C9: for equal-size 0/1 matrices, compare_graphs_with_adj_list reports
\* A_in_B iff every node's out-neighbour set in A is a subset of that in B
\* (and B_in_A likewise), and decides both -> (equal, A), only A_in_B ->
\* (keep_B, B), only B_in_A -> (keep_A, A), neither -> (keep_both, None);
\* the tag is equal iff A and B have exactly the same edge set.
C9_ExactPath ==
    (op = "compare_graphs_with_adj_list" /\ Len(A) = Len(B)) =>
        LET A_in_B == \A i \in 0..(Len(A) - 1) :
                        OutNeighbours(A, i) \subseteq OutNeighbours(B, i)
            B_in_A == \A i \in 0..(Len(B) - 1) :
                        OutNeighbours(B, i) \subseteq OutNeighbours(A, i)
        IN  /\ raised = "none"
            /\ (A_in_B /\ B_in_A) => (decision = "equal" /\ kept = "A")
            /\ (A_in_B /\ ~B_in_A) => (decision = "keep_B" /\ kept = "B")
            /\ (~A_in_B /\ B_in_A) => (decision = "keep_A" /\ kept = "A")
            /\ (~A_in_B /\ ~B_in_A) => (decision = "keep_both" /\ kept = "None")
            /\ (decision = "equal") <=> (EdgeSet(A) = EdgeSet(B))

C9_Witness ==
    /\ op = "compare_graphs_with_adj_list"
    /\ Len(A) = Len(B)
    /\ decision = "keep_B"
    /\ EdgeSet(A) # {}
    /\ \E i \in 1..Len(B) : B[i][i] = 1

\* C10: compare_graphs_with_adj_list fails with a size-mismatch error, and
\* returns no decision, whenever A and B have different node counts, in
\* either order.
C10_SizeMismatchFails ==
    (op = "compare_graphs_with_adj_list" /\ Len(A) # Len(B)) =>
        (raised # "none" /\ decision = "no_result" /\ kept = "no_result")
----
(* Purity of the compare methods. *)

\* what a method has returned so far, whatever instance it was called on
ResultsOf(method) == { Tail(x) : x \in returned[method] }

\* the fields of the instances a method has been called on so far
InstancesOf(method) == { Head(x) : x \in returned[method] }

----
(* The rotation search. *)

\* the arguments of the search are in the range of sizes 1 <= n_A <= n_B
SizesInRange == 1 <= Len(seq_A) /\ Len(seq_A) <= Len(seq_B)

\* seq_A without its position bands
StrippedA == [k \in 1..Len(seq_A) |-> seq_A[k] % (2 ^ Len(seq_A))]

\* seq_B without its position bands
StrippedB == [k \in 1..Len(seq_B) |-> seq_B[k] % (2 ^ Len(seq_B))]

\* the window of length n_A starting at index s of StrippedB shifted left by
\* r: its element k is element (r + s + k) mod n_B of StrippedB (0-based)
CyclicWindow(r, s) ==
    [k \in 1..Len(seq_A) |-> StrippedB[((r + s + k - 1) % Len(seq_B)) + 1]]

\* C12: for 1 <= n_A <= n_B, _find_signature_rotation_match returns true
\* exactly when, for some rotation r in [0, n_B) and window start s in
\* [0, n_B - n_A], the run-match comparator accepts sig_A mod 2^n_A against
\* the length-n_A window at s of sig_B mod 2^n_B shifted left by r.
C12_RotationWindows ==
    (op = "find_signature_rotation_match" /\ SizesInRange) =>
        (match <=>
            \E r \in 0..(Len(seq_B) - 1) : \E s \in 0..(Len(seq_B) - Len(seq_A)) :
                compare_signature_sequences(StrippedA, CyclicWindow(r, s)))

\* a smaller sequence matched in a larger one, at no window of rotation 0
C12_Witness ==
    /\ op = "find_signature_rotation_match"
    /\ 1 <= Len(seq_A)
    /\ Len(seq_A) < Len(seq_B)
    /\ match
    /\ \A s \in 0..(Len(seq_B) - Len(seq_A)) :
            ~compare_signature_sequences(StrippedA, CyclicWindow(0, s))
    /\ \E k \in 1..Len(seq_B) : seq_B[k] # StrippedB[k]

----
(* The run-match comparator. *)

\* the pairs <<i, j>> of 0-based indices at which the two sequences have the
\* same two adjacent elements
CommonPairs ==
    { ij \in (0..(Len(seq_A) - 2)) \X (0..(Len(seq_B) - 2)) :
        /\ seq_A[ij[1] + 1] = seq_B[ij[2] + 1]
        /\ seq_A[ij[1] + 2] = seq_B[ij[2] + 2] }

\* the length of the longest common suffix of seq_A[0..i) and seq_B[0..j)
LongestCommonSuffix(i, j) ==
    LET m == IF i < j THEN i ELSE j
    IN  SetMax({ k \in 0..m : \A l \in 1..k : seq_A[i - k + l] = seq_B[j - k + l] })

\* C13: _compare_signature_sequences returns true exactly when the sequences
\* have the same two adjacent elements somewhere, at whatever offsets; so it
\* returns false when either is empty or of length 1; and every entry
\* dp[i][j] of its table is the length of the longest common suffix of
\* seq_A[0..i) and seq_B[0..j).
C13_CommonRun ==
    op = "compare_signature_sequences" =>
        /\ match <=> CommonPairs # {}
        /\ (Len(seq_A) <= 1 \/ Len(seq_B) <= 1) => ~match
        /\ \A i \in 0..Len(seq_A) : \A j \in 0..Len(seq_B) :
                dp_table(seq_A, seq_B)[i, j] = LongestCommonSuffix(i, j)

\* sequences of different lengths that share a run of two at different
\* offsets only, and differ right after elements that agree
C13_Witness ==
    /\ op = "compare_signature_sequences"
    /\ match
    /\ Len(seq_A) # Len(seq_B)
    /\ \A ij \in CommonPairs : ij[1] # ij[2]
    /\ \E i \in 2..Len(seq_A) : \E j \in 2..Len(seq_B) :
            seq_A[i - 1] = seq_B[j - 1] /\ seq_A[i] # seq_B[j]

----
(* The cost of the rotation search. *)

----
(* Sizes and argument order in compare_graphs. *)

\* C15: compare_graphs never retains the matrix of fewer nodes: if
\* n_A > n_B >= 1 the decision is keep_A or keep_both, if n_B > n_A >= 1 it
\* is keep_B or keep_both, and the tags equal_keep_A and equal_keep_B are
\* given to matrices of equal size only.
C15_SmallerNeverKept ==
    op = "compare_graphs" =>
        /\ (Len(A) > Len(B) /\ Len(B) >= 1) =>
                (decision \in {"keep_A", "keep_both"} /\ kept # "B")
        /\ (Len(B) > Len(A) /\ Len(A) >= 1) =>
                (decision \in {"keep_B", "keep_both"} /\ kept # "A")
        /\ decision \in {"equal_keep_A", "equal_keep_B"} => Len(A) = Len(B)

\* the larger first argument retained over a smaller second one with nodes
C15_Witness ==
    /\ op = "compare_graphs"
    /\ Len(A) > Len(B)
    /\ Len(B) >= 1
    /\ decision = "keep_A"
    /\ kept = "A"

\* the result of the call with the arguments swapped; its "A" is B, its "B" is A
Swapped == compare_graphs(B, A)

\* the matrix a result retains, named as in the call compare_graphs(A, B)
Retained(result, first, second) ==
    IF result[2] = "A" THEN first
    ELSE IF result[2] = "B" THEN second
    ELSE "None"

MutualTags == {"equal_keep_A", "equal_keep_B"}

\* C16: compare_graphs(B, A) mirrors compare_graphs(A, B) on 0/1 matrices:
\* keep_B becomes keep_A and keep_A becomes keep_B, the same matrix being
\* retained; keep_both stays keep_both; and under mutual containment both
\* calls retain the same matrix when the edge counts differ, and each call
\* retains its first argument when they are equal.
C16_SwapMirror ==
    (op = "compare_graphs" /\ IsZeroOne(A) /\ IsZeroOne(B)) =>
        /\ decision = "keep_B" => Swapped = <<"keep_A", "A">>
        /\ decision = "keep_A" => Swapped = <<"keep_B", "B">>
        /\ decision = "keep_both" => Swapped = <<"keep_both", "None">>
        /\ decision \in MutualTags =>
            /\ Swapped[1] \in MutualTags
            /\ Cardinality(EdgeSet(A)) # Cardinality(EdgeSet(B)) =>
                    Retained(<<decision, kept>>, "A", "B") = Retained(Swapped, "B", "A")
            /\ Cardinality(EdgeSet(A)) = Cardinality(EdgeSet(B)) =>
                    (kept = "A" /\ Swapped[2] = "A")

\* mutual containment of two different matrices with as many edges each
C16_Witness ==
    /\ op = "compare_graphs"
    /\ decision \in MutualTags
    /\ A # B
    /\ Cardinality(EdgeSet(A)) = Cardinality(EdgeSet(B))
    /\ Cardinality(EdgeSet(A)) >= 1

----
(* Rotation of the columns of the second argument. *)

\* the matrix with its columns cyclically shifted left by k: column j of the
\* result is column (j + k) mod n of the matrix (0-based)
ShiftColumns(matrix, k) ==
    [i \in 1..Len(matrix) |-> [j \in 1..Len(matrix) |->
        matrix[i][((j - 1 + k) % Len(matrix)) + 1]]]

\* C17: the rotation search gives the same result on the signatures of A and
\* of B as on the signatures of A and of B with its columns cyclically
\* shifted by any k; the position bands of the signatures have no influence.
C17_ColumnRotationInvariant ==
    op = "find_signature_rotation_match" =>
        /\ seq_A = compute_column_signature(A)
        /\ seq_B = compute_column_signature(B)
        /\ \A k \in 0..(Len(B) - 1) :
                find_signature_rotation_match(
                    seq_A, compute_column_signature(ShiftColumns(B, k))) = match

\* a match in a larger matrix whose shifted copies all differ from it
C17_Witness ==
    /\ op = "find_signature_rotation_match"
    /\ match
    /\ 2 <= Len(A)
    /\ Len(A) < Len(B)
    /\ \A k \in 1..(Len(B) - 1) : ShiftColumns(B, k) # B
    /\ \E c \in 1..Len(A) : seq_A[c] # StrippedA[c]

====
